---- MODULE Spec2Model ----
(***************************************************************************)
(* A model of python/pygiv/pygiv.py: the ClassView / ClassViewInline       *)
(* reflection-driven form generator, its view registry (classviews) and    *)
(* the write-back callbacks.                                               *)
(*                                                                         *)
(* Strings are sequences of tokens (a token stands for a run of characters *)
(* holding no ':'), so that "ctxt + ':' + nm" and nm.split(':') are        *)
(* computed, not assumed.  Numbers are counted in halves (3 is 6, 2.5 is   *)
(* 5), so that a spin box can hold a value that int() truncates.           *)
(***************************************************************************)
EXTENDS Integers, Sequences, FiniteSets, TLC

\* ------------------------------------------------------------- strings

StartsWith(s, t) == Len(s) >= 1 /\ s[1] = t

RECURSIVE SplitFrom(_, _, _, _)
SplitFrom(s, sep, i, cur) ==
    IF i > Len(s) THEN <<cur>>
    ELSE IF s[i] = sep THEN <<cur>> \o SplitFrom(s, sep, i + 1, <<>>)
    ELSE SplitFrom(s, sep, i + 1, Append(cur, s[i]))

\* nm.split(':')
Split(s, sep) == SplitFrom(s, sep, 1, <<>>)

\* nm.replace(a, b)
Replace(s, a, b) == [i \in 1..Len(s) |-> IF s[i] = a THEN b ELSE s[i]]

\* --------------------------------------------------------------- numbers

\* the number i, counted in halves
Num(i) == i * 2

\* Python int(x): truncation toward zero
PyInt(x) == IF x >= 0 THEN (x \div 2) * 2 ELSE 0 - (((0 - x) \div 2) * 2)

\* Python float(x) of a spin box value: the same number
PyFloat(x) == x

Digits == <<"0", "1", "2", "3", "4", "5", "6", "7", "8", "9">>

IsDigit(t) == \E d \in 1..10 : Digits[d] = t

DigitVal(t) == (CHOOSE d \in 1..10 : Digits[d] = t) - 1

RECURSIVE NatVal(_, _)
NatVal(s, acc) == IF s = <<>> THEN acc ELSE NatVal(Tail(s), acc * 10 + DigitVal(s[1]))

AllDigits(s) == s # <<>> /\ \A i \in 1..Len(s) : IsDigit(s[i])

\* the unsigned literals float() accepts here: d+, d+".0", d+".5"
UnsignedOk(s) ==
    \/ AllDigits(s)
    \/ /\ Len(s) >= 3
       /\ s[Len(s) - 1] = "."
       /\ s[Len(s)] \in {"0", "5"}
       /\ AllDigits(SubSeq(s, 1, Len(s) - 2))

UnsignedVal(s) ==
    IF AllDigits(s) THEN Num(NatVal(s, 0))
    ELSE Num(NatVal(SubSeq(s, 1, Len(s) - 2), 0)) + (IF s[Len(s)] = "5" THEN 1 ELSE 0)

\* Python float(mv) of a tag value: [ok, n]; ok = FALSE is ValueError
ParseFloat(s) ==
    IF s # <<>> /\ s[1] = "-"
    THEN IF UnsignedOk(Tail(s)) THEN [ok |-> TRUE, n |-> 0 - UnsignedVal(Tail(s))]
         ELSE [ok |-> FALSE, n |-> 0]
    ELSE IF UnsignedOk(s) THEN [ok |-> TRUE, n |-> UnsignedVal(s)]
         ELSE [ok |-> FALSE, n |-> 0]

\* ---------------------------------------------------------------- values

\* A Python value: k its kind, n its number (int and float: in halves;
\* bool: 0/1; enum: the member's value; obj: the object's id; go: 0 = nil),
\* s its text (str) or its type name (enum).
VInt(i)       == [k |-> "int",   n |-> Num(i), s |-> <<>>]
VFloat(x)     == [k |-> "float", n |-> x,      s |-> <<>>]
VBool(b)      == [k |-> "bool",  n |-> IF b THEN 1 ELSE 0, s |-> <<>>]
VStr(s)       == [k |-> "str",   n |-> 0,      s |-> s]
VEnum(typ, v) == [k |-> "enum",  n |-> v,      s |-> typ]
VObj(o)       == [k |-> "obj",   n |-> o,      s |-> <<>>]
VGo(nonnil)   == [k |-> "go",    n |-> IF nonnil THEN 1 ELSE 0, s |-> <<>>]
VNone         == [k |-> "none",  n |-> 0,      s |-> <<>>]
VInternal     == [k |-> "internal", n |-> 0,   s |-> <<>>]

\* the enumeration classes of the application: members in definition order.
\* Dir follows the Go convention (values 0.., the count member DirN last);
\* Color is a plain Python Enum numbered from 1.
EnumMembers(typ) ==
    IF typ = <<"Dir">>
    THEN << [name |-> <<"Left">>,     value |-> 0],
            [name |-> <<"Right">>,    value |-> 1],
            [name |-> <<"Dir", "N">>, value |-> 2] >>
    ELSE << [name |-> <<"Red">>,   value |-> 1],
            [name |-> <<"Green">>, value |-> 2] >>

\* en.name of an enumeration member
EnumName(typ, v) ==
    LET ms == EnumMembers(typ)
    IN  ms[CHOOSE i \in 1..Len(ms) : ms[i].value = v].name

\* typ(idx): the member whose VALUE is idx; ok = FALSE is ValueError
EnumByValue(typ, idx) ==
    LET ms == EnumMembers(typ)
    IN  IF \E i \in 1..Len(ms) : ms[i].value = idx
        THEN [ok |-> TRUE, val |-> VEnum(typ, idx)]
        ELSE [ok |-> FALSE, val |-> VNone]

\* str(val) of the values that reach the text fallback
PyStr(val) ==
    IF val.k = "str" THEN val.s
    ELSE IF val.k = "none" THEN <<"None">>
    ELSE IF val.k = "internal" THEN <<"{}">>
    ELSE <<"?">>

\* ------------------------------------------------------------------ tags

\* A tag string is a sequence of <<key, value>> pairs; StructTagVal returns
\* the value of the first pair with the key, the empty string if none.
RECURSIVE StructTagVal(_, _)
StructTagVal(key, tags) ==
    IF tags = <<>> THEN <<>>
    ELSE IF tags[1][1] = key THEN tags[1][2]
    ELSE StructTagVal(key, Tail(tags))

TagValue(tags, key) == StructTagVal(key, tags)

HasTagValue(tags, key, value) == StructTagVal(key, tags) = value

\* --------------------------------------------------------------- widgets

\* A child of a container.  val is the spin box's Value, the check box's
\* checked state (0/1), the combo box's CurIndex, the Go value view's shown
\* value, or (Layout) the id of the container it is; cb is the callback its
\* signal is connected to.
NewWidget(kind, name) ==
    [wk |-> kind, name |-> name, val |-> 0, text |-> <<>>, items |-> <<>>,
     cb |-> "", hasMin |-> FALSE, min |-> 0, hasMax |-> FALSE, max |-> 0,
     step |-> 0, format |-> <<>>, width |-> <<>>, inactive |-> FALSE,
     tip |-> <<>>]

Max2(a, b) == IF a >= b THEN a ELSE b
Min2(a, b) == IF a <= b THEN a ELSE b

\* gi.SpinBox.SetValue: the value, kept within the bounds that are set
SpinClamp(wd, v) ==
    LET v1 == IF wd.hasMax THEN Min2(v, wd.max) ELSE v
    IN  IF wd.hasMin THEN Max2(v1, wd.min) ELSE v1

SpinSetValue(wd, v) == [wd EXCEPT !.val = SpinClamp(wd, v)]

\* position of a name in the combo box's items, 0 if absent
ItemIndex(items, name) ==
    IF \E i \in 1..Len(items) : items[i] = name
    THEN CHOOSE i \in 1..Len(items) : items[i] = name
    ELSE 0

\* gi.ComboBox.SetCurVal: CurIndex (0-based) of the item; an item that is not
\* listed is added at the end
ComboSetCurVal(wd, name) ==
    IF ItemIndex(wd.items, name) > 0
    THEN [wd EXCEPT !.val = ItemIndex(wd.items, name) - 1]
    ELSE [wd EXCEPT !.val = Len(wd.items), !.items = Append(wd.items, name)]

\* the names ItemsFromEnum lists: every member but <TypeName>N, in order
RECURSIVE EnumItems(_, _)
EnumItems(ms, nnm) ==
    IF ms = <<>> THEN <<>>
    ELSE IF ms[1].name # nnm THEN <<ms[1].name>> \o EnumItems(Tail(ms), nnm)
    ELSE EnumItems(Tail(ms), nnm)

ItemsFromEnum(cb, enm) ==
    LET nnm == enm.s \o <<"N">>
        nms == EnumItems(EnumMembers(enm.s), nnm)
    IN  ComboSetCurVal([cb EXCEPT !.items = nms], EnumName(enm.s, enm.n))

\* ----------------------------------------------------------------- state

VARIABLES
    objs,        \* object id -> its __dict__: a sequence of [nm, val], in insertion order
    tags,        \* object id -> its Tags dict: field name -> tag string
    views,       \* the ClassView / ClassViewInline instances created so far
    conts,       \* the gi.Frame / gi.Layout containers created so far
    classviews,  \* the registry: view name -> view
    objView,     \* object id -> its ClassView, ClassViewInline, ClassViewDialog attributes
    dlgs,        \* the dialogs opened so far: the object edited, the ClassView, the window
    err,         \* the exception the last operation ended with, "" if none
    last,        \* the last operation and its arguments
    events       \* the number of user and application events so far

vars == <<objs, tags, views, conts, classviews, objView, dlgs, err, last, events>>

\* the part of the state the operations thread through
World == [objs |-> objs, views |-> views, conts |-> conts,
          classviews |-> classviews, objView |-> objView, dlgs |-> dlgs, err |-> ""]

\* ---------------------------------------------------------- Python helpers

\* isinstance(val, cls) over the classes pygiv tests; bool is a subclass of int
IsInstance(val, cls) ==
    CASE cls = "Enum"         -> val.k = "enum"
      [] cls = "ClassViewObj" -> val.k = "obj"
      [] cls = "GoClass"      -> val.k = "go"
      [] cls = "bool"         -> val.k = "bool"
      [] cls = "int"          -> val.k \in {"int", "bool"}
      [] cls = "float"        -> val.k = "float"
      [] OTHER                -> FALSE

HasField(flds, nm) == \E i \in 1..Len(flds) : flds[i].nm = nm

FieldIndex(flds, nm) == CHOOSE i \in 1..Len(flds) : flds[i].nm = nm

\* getattr(obj, nm) / flds[nm]
GetAttr(flds, nm) == flds[FieldIndex(flds, nm)].val

\* setattr(obj, nm, val): in place if the attribute exists, else added last
SetAttr(flds, nm, val) ==
    IF HasField(flds, nm)
    THEN [flds EXCEPT ![FieldIndex(flds, nm)].val = val]
    ELSE Append(flds, [nm |-> nm, val |-> val])

\* delattr(obj, nm)
DelAttr(flds, nm) ==
    LET i == FieldIndex(flds, nm)
    IN  SubSeq(flds, 1, i - 1) \o SubSeq(flds, i + 1, Len(flds))

EmptyDict == [x \in {} |-> 0]

DictSet(d, key, v) == [x \in (DOMAIN d) \cup {key} |-> IF x = key THEN v ELSE d[x]]

\* ClassView.FieldTags / ClassViewInline.FieldTags (self.Tags is obj.Tags)
FieldTags(o, field) == IF field \in DOMAIN tags[o] THEN tags[o][field] ELSE <<>>

FieldTagVal(o, field, key) == StructTagVal(key, FieldTags(o, field))

\* ------------------------------------------------------------- containers

NewCont == [children |-> <<>>, live |-> TRUE]

AddChild(w, cid, wd) == [w EXCEPT !.conts[cid].children = Append(@, wd)]

Child(cs, ref) == cs[ref[1]].children[ref[2]]

HasChild(cs, ref) ==
    ref # <<>> /\ ref[1] \in 1..Len(cs) /\ ref[2] \in 1..Len(cs[ref[1]].children)

\* the containers nested (as Layout children) in container cid, itself included
RECURSIVE SubConts(_, _, _)
SubConts(cs, cid, fuel) ==
    IF fuel = 0 THEN {cid}
    ELSE {cid} \cup UNION { SubConts(cs, cs[cid].children[i].val, fuel - 1) :
                             i \in { j \in 1..Len(cs[cid].children) :
                                       cs[cid].children[j].wk = "Layout" } }

\* Frame.DeleteChildren(True): the children are destroyed, and with them the
\* layouts nested in them
DeleteChildren(w, cid) ==
    LET dead == SubConts(w.conts, cid, Len(w.conts)) \ {cid}
    IN  [w EXCEPT !.conts = [c \in 1..Len(w.conts) |->
            IF c = cid THEN [w.conts[c] EXCEPT !.children = <<>>]
            ELSE IF c \in dead THEN [w.conts[c] EXCEPT !.live = FALSE]
            ELSE w.conts[c]]]

\* ---------------------------------------------------- views and the registry

\* ClassView.__init__ / ClassViewInline.__init__: the view, registered under
\* its name (replacing whatever the name was bound to)
NewView(w, kind, o, name) ==
    LET v == [kind |-> kind, Class |-> o, Name |-> name, cont |-> 0,
              Views |-> EmptyDict, Widgets |-> EmptyDict]
    IN  [w EXCEPT !.views = Append(@, v),
                  !.classviews = DictSet(@, name, Len(w.views) + 1)]

\* ClassViewObj.NewClassView
NewClassView(w, o, name) ==
    [NewView(w, "ClassView", o, name) EXCEPT !.objView[o].ClassView = Len(w.views) + 1]

\* ClassViewObj.NewClassViewInline
NewClassViewInline(w, o, name) ==
    [NewView(w, "ClassViewInline", o, name)
        EXCEPT !.objView[o].ClassViewInline = Len(w.views) + 1]

\* ------------------------------------------------------ the field classifier

\* the min / max / step / format tags of a spin box, in the order PyObjView
\* applies them; float(mv) of an unparseable value raises ValueError and
\* leaves the spin box as configured so far
SpinTags(wd, tgs) ==
    LET mn == TagValue(tgs, "min")
        mx == TagValue(tgs, "max")
        st == TagValue(tgs, "step")
        fm == TagValue(tgs, "format")
        w1 == IF mn # <<>> /\ ParseFloat(mn).ok
              THEN [wd EXCEPT !.hasMin = TRUE, !.min = ParseFloat(mn).n] ELSE wd
        w2 == IF mx # <<>> /\ ParseFloat(mx).ok
              THEN [w1 EXCEPT !.hasMax = TRUE, !.max = ParseFloat(mx).n] ELSE w1
        w3 == IF st # <<>> /\ ParseFloat(st).ok
              THEN [w2 EXCEPT !.step = ParseFloat(st).n] ELSE w2
        w4 == IF fm # <<>> THEN [w3 EXCEPT !.format = fm] ELSE w3
    IN  IF mn # <<>> /\ ~ParseFloat(mn).ok THEN [wd |-> wd, err |-> "ValueError"]
        ELSE IF mx # <<>> /\ ~ParseFloat(mx).ok THEN [wd |-> w1, err |-> "ValueError"]
        ELSE IF st # <<>> /\ ~ParseFloat(st).ok THEN [wd |-> w2, err |-> "ValueError"]
        ELSE [wd |-> w4, err |-> ""]

\* the controls PyObjView creates, each as its branch leaves it
ComboBoxFor(val, nm, fnm) ==
    [ItemsFromEnum([NewWidget("ComboBox", fnm) EXCEPT !.text = nm], val)
        EXCEPT !.cb = "SetEnumCB"]

ActionFor(nm, fnm) == [NewWidget("Action", fnm) EXCEPT !.text = nm, !.cb = "EditObjCB"]

CheckBoxFor(val, fnm) ==
    [NewWidget("CheckBox", fnm) EXCEPT !.val = val.n, !.cb = "SetBoolValCB"]

\* [wd, err]: the tags may raise
SpinBoxFor(val, fnm, tgs) ==
    SpinTags(IF IsInstance(val, "int")
             THEN [SpinSetValue(NewWidget("SpinBox", fnm), val.n)
                      EXCEPT !.cb = "SetIntValCB", !.step = Num(1)]
             ELSE [SpinSetValue(NewWidget("SpinBox", fnm), val.n)
                      EXCEPT !.cb = "SetFloatValCB"],
             tgs)

TextFieldFor(val, fnm, tgs) ==
    IF TagValue(tgs, "width") # <<>>
    THEN [NewWidget("TextField", fnm) EXCEPT !.text = PyStr(val), !.cb = "SetStrValCB",
                                             !.width = TagValue(tgs, "width") \o <<"ch">>]
    ELSE [NewWidget("TextField", fnm) EXCEPT !.text = PyStr(val), !.cb = "SetStrValCB"]

Built(wd) == [wd |-> wd, err |-> ""]

\* PyObjView with the numeric test ahead of the boolean one (bool is a
\* subclass of int, so a boolean would get a spin box)
PyObjWidgetNumFirst(val, nm, fnm, tgs) ==
    IF IsInstance(val, "Enum") THEN Built(ComboBoxFor(val, nm, fnm))
    ELSE IF IsInstance(val, "ClassViewObj") THEN Built(ActionFor(nm, fnm))
    ELSE IF IsInstance(val, "int") \/ IsInstance(val, "float")
    THEN SpinBoxFor(val, fnm, tgs)
    ELSE IF IsInstance(val, "bool") THEN Built(CheckBoxFor(val, fnm))
    ELSE Built(TextFieldFor(val, fnm, tgs))

\* the control PyObjView builds for a value that is neither an inline nested
\* object nor a Go object, by the isinstance chain: [wd, err]
PyObjWidget(val, nm, fnm, tgs) ==
    IF IsInstance(val, "Enum") THEN Built(ComboBoxFor(val, nm, fnm))
    ELSE IF IsInstance(val, "ClassViewObj") THEN Built(ActionFor(nm, fnm))
    ELSE IF IsInstance(val, "bool") THEN Built(CheckBoxFor(val, fnm))
    ELSE IF IsInstance(val, "int") \/ IsInstance(val, "float")
    THEN SpinBoxFor(val, fnm, tgs)
    ELSE Built(TextFieldFor(val, fnm, tgs))

SetInactive(wd, tgs) ==
    IF HasTagValue(tgs, "inactive", <<"+">>) THEN [wd EXCEPT !.inactive = TRUE] ELSE wd

RECURSIVE ConfigLoop(_, _, _)
RECURSIVE ClassViewInlineConfig(_, _)

\* frame.AddChild(sv.Lay) once sv.Config() has returned; an exception of
\* sv.Config() leaves PyObjView before that
AddInline(w, sv, frame, tgs) ==
    IF w.err # "" THEN [w |-> w, vw |-> <<>>]
    ELSE [w  |-> AddChild(w, frame,
                    SetInactive([NewWidget("Layout", w.views[sv].Name)
                                    EXCEPT !.val = w.views[sv].cont], tgs)),
          vw |-> <<frame, Len(w.conts[frame].children) + 1>>]

\* the control r.wd added to the frame: an exception (r.err) leaves PyObjView
\* with the control added and configured so far
AddControl(w, r, frame, tgs) ==
    IF r.err # ""
    THEN [w |-> [AddChild(w, frame, r.wd) EXCEPT !.err = r.err], vw |-> <<>>]
    ELSE [w  |-> AddChild(w, frame, SetInactive(r.wd, tgs)),
          vw |-> <<frame, Len(w.conts[frame].children) + 1>>]

\* PyObjView(val, nm, frame, ctxt, tags): [w, vw], vw the control it returns
PyObjView(w, val, nm, frame, ctxt, tgs) ==
    IF ~IsInstance(val, "Enum") /\ IsInstance(val, "ClassViewObj")
       /\ HasTagValue(tgs, "view", <<"inline">>)
    THEN AddInline(ClassViewInlineConfig(
                       NewClassViewInline(w, val.n, ctxt \o <<"_">> \o nm),
                       Len(w.views) + 1),
                   Len(w.views) + 1, frame, tgs)
    ELSE AddControl(w, PyObjWidget(val, nm, ctxt \o <<":">> \o nm, tgs), frame, tgs)

\* self.Widgets[nm] = vw, unless PyObjView raised
BindWidget(r, v, nm) ==
    IF r.w.err # "" THEN r.w
    ELSE [r.w EXCEPT !.views[v].Widgets = DictSet(@, nm, r.vw)]

\* self.Views[nm] = vv; self.Widgets[nm] = vw
BindView(w, v, nm, ref) ==
    [w EXCEPT !.views[v].Views = DictSet(@, nm, ref),
              !.views[v].Widgets = DictSet(@, nm, ref)]

\* the label of a field, added before its control
AddLabel(w, v, nm) ==
    AddChild(w, w.views[v].cont,
             [NewWidget("Label", <<"lbl_">> \o nm)
                 EXCEPT !.text = nm, !.tip = FieldTagVal(w.views[v].Class, nm, "desc")])

\* the field after its label: a Go object gets its value view (a nil one
\* nothing), any other value what PyObjView builds
ConfigField(w, v, nm, val, tgs) ==
    IF IsInstance(val, "GoClass")
    THEN IF val.n = 0 THEN w
         ELSE BindView(AddChild(w, w.views[v].cont,
                           [NewWidget("GoView", w.views[v].Name \o <<":">> \o nm)
                               EXCEPT !.val = val.n]),
                       v, nm, <<w.views[v].cont, Len(w.conts[w.views[v].cont].children) + 1>>)
    ELSE BindWidget(PyObjView(w, val, nm, w.views[v].cont, w.views[v].Name, tgs), v, nm)

\* the loop's turn without the test for view:"-"
ConfigStepNoHide(w, v, nm, val, tgs) ==
    IF nm = <<"Tags">> \/ StartsWith(nm, "ClassView")
    THEN w
    ELSE ConfigField(AddLabel(w, v, nm), v, nm, val, tgs)

\* one turn of the loop of ClassView.Config and ClassViewInline.Config
ConfigStep(w, v, nm, val, tgs) ==
    IF HasTagValue(tgs, "view", <<"-">>) \/ nm = <<"Tags">> \/ StartsWith(nm, "ClassView")
    THEN w
    ELSE ConfigField(AddLabel(w, v, nm), v, nm, val, tgs)

\* the loop over self.Class.__dict__, from its i-th item on; an exception
\* ends it
ConfigLoop(w, v, i) ==
    IF w.err # "" \/ i > Len(w.objs[w.views[v].Class]) THEN w
    ELSE ConfigLoop(ConfigStep(w, v, w.objs[w.views[v].Class][i].nm,
                               w.objs[w.views[v].Class][i].val,
                               FieldTags(w.views[v].Class, w.objs[w.views[v].Class][i].nm)),
                    v, i + 1)

\* ClassViewInline.Config: a new Layout, filled from the object's fields
ClassViewInlineConfig(w, v) ==
    ConfigLoop([w EXCEPT !.conts = Append(@, NewCont),
                         !.views[v].cont = Len(w.conts) + 1,
                         !.views[v].Views = EmptyDict,
                         !.views[v].Widgets = EmptyDict], v, 1)

\* ClassView.Config: the Frame emptied and filled from the object's fields;
\* a view that has no Frame yet (Frame = 0) fails on its first use
ClassViewConfig(w, v) ==
    IF w.views[v].cont = 0 THEN [w EXCEPT !.err = "AttributeError"]
    ELSE ConfigLoop([DeleteChildren(w, w.views[v].cont)
                        EXCEPT !.views[v].Views = EmptyDict,
                               !.views[v].Widgets = EmptyDict], v, 1)

\* ------------------------------------------------------------------ Update

SetChild(w, ref, wd) == [w EXCEPT !.conts[ref[1]].children[ref[2]] = wd]

RECURSIVE ViewUpdate(_, _, _)

\* obj.UpdateClassView(), unless obj.UpdateClassViewInline() raised
UpdateClassView(w, o, fuel) ==
    IF w.err = "" /\ w.objView[o].ClassView # 0
    THEN ViewUpdate(w, w.objView[o].ClassView, fuel) ELSE w

\* obj.UpdateClassViewInline()
UpdateClassViewInline(w, o, fuel) ==
    IF w.objView[o].ClassViewInline # 0
    THEN ViewUpdate(w, w.objView[o].ClassViewInline, fuel) ELSE w

\* what PyObjUpdtView sets the control wd to, for a value that is not a
\* nested object: the control showing val when it is of the kind val's type
\* expects, the control as it is (with a printed notice) otherwise
UpdtWidget(val, wd) ==
    IF IsInstance(val, "Enum")
    THEN IF wd.wk = "ComboBox" THEN ComboSetCurVal(wd, EnumName(val.s, val.n)) ELSE wd
    ELSE IF IsInstance(val, "GoClass") THEN wd
    ELSE IF IsInstance(val, "ClassViewObj") THEN wd
    ELSE IF IsInstance(val, "bool")
    THEN IF wd.wk = "CheckBox" THEN [wd EXCEPT !.val = val.n] ELSE wd
    ELSE IF IsInstance(val, "int") \/ IsInstance(val, "float")
    THEN IF wd.wk = "SpinBox" THEN SpinSetValue(wd, val.n) ELSE wd
    ELSE IF wd.wk = "TextField" THEN [wd EXCEPT !.text = PyStr(val)] ELSE wd

\* PyObjUpdtView(val, vw, nm)
PyObjUpdtView(w, val, vw, nm, fuel) ==
    IF ~IsInstance(val, "Enum") /\ ~IsInstance(val, "GoClass")
       /\ IsInstance(val, "ClassViewObj")
    THEN UpdateClassView(UpdateClassViewInline(w, val.n, fuel), val.n, fuel)
    ELSE SetChild(w, vw, UpdtWidget(val, Child(w.conts, vw)))

\* the loop's turn with the binding read the wrong way: the control's value
\* is assigned to the field
UpdateStepReversed(w, v, nm, val, fuel) ==
    IF nm \in DOMAIN w.views[v].Widgets /\ val.k \in {"int", "float", "bool"}
    THEN [w EXCEPT !.objs[w.views[v].Class] =
             SetAttr(@, nm, [val EXCEPT !.n = Child(w.conts, w.views[v].Widgets[nm]).val])]
    ELSE w

\* one turn of the loop of ClassView.Update / ClassViewInline.Update
UpdateStep(w, v, nm, val, fuel) ==
    IF nm \in DOMAIN w.views[v].Views
    THEN SetChild(w, w.views[v].Views[nm],
                  [Child(w.conts, w.views[v].Views[nm]) EXCEPT !.val = val.n])
    ELSE IF nm \in DOMAIN w.views[v].Widgets
    THEN PyObjUpdtView(w, val, w.views[v].Widgets[nm], nm, fuel)
    ELSE w

RECURSIVE UpdateLoop(_, _, _, _)
UpdateLoop(w, v, i, fuel) ==
    IF w.err # "" \/ i > Len(w.objs[w.views[v].Class]) THEN w
    ELSE UpdateLoop(UpdateStep(w, v, w.objs[w.views[v].Class][i].nm,
                               w.objs[w.views[v].Class][i].val, fuel),
                    v, i + 1, fuel)

\* ClassView.Update / ClassViewInline.Update; fuel bounds the nesting of
\* views of nested objects
ViewUpdate(w, v, fuel) ==
    IF w.views[v].cont = 0 THEN [w EXCEPT !.err = "AttributeError"]
    ELSE IF fuel = 0 THEN [w EXCEPT !.err = "RecursionError"]
    ELSE UpdateLoop(w, v, 1, fuel - 1)

\* --------------------------------------------------------- write-back callbacks

\* cv = classviews[nms[0]]; setattr(cv.Class, nms[1], val)
WriteBack(w, name, val) ==
    LET nms == Split(name, ":")
    IN  IF Len(nms) < 2 THEN [w EXCEPT !.err = "IndexError"]
        ELSE IF nms[1] \notin DOMAIN w.classviews THEN [w EXCEPT !.err = "KeyError"]
        ELSE LET o == w.views[w.classviews[nms[1]]].Class
             IN  [w EXCEPT !.objs[o] = SetAttr(@, nms[2], val)]

SetIntValCB(w, send, sig) ==
    WriteBack(w, send.name, [k |-> "int", n |-> PyInt(send.val), s |-> <<>>])

SetFloatValCB(w, send, sig) ==
    WriteBack(w, send.name, [k |-> "float", n |-> PyFloat(send.val), s |-> <<>>])

SetStrValCB(w, send, sig) ==
    IF sig # "TextFieldDone" THEN w
    ELSE WriteBack(w, send.name, VStr(send.text))

SetBoolValCB(w, send, sig) ==
    IF sig # "ButtonToggled" THEN w
    ELSE WriteBack(w, send.name, VBool(send.val # 0))

\* typ(idx) for typ = type(flds[nms[1]]): [ok, err, val]
TypeCall(cur, idx) ==
    CASE cur.k = "enum"  -> IF EnumByValue(cur.s, idx).ok
                            THEN [err |-> "", val |-> EnumByValue(cur.s, idx).val]
                            ELSE [err |-> "ValueError", val |-> VNone]
      [] cur.k = "int"   -> [err |-> "", val |-> VInt(idx)]
      [] cur.k = "float" -> [err |-> "", val |-> VFloat(Num(idx))]
      [] cur.k = "bool"  -> [err |-> "", val |-> VBool(idx # 0)]
      [] cur.k = "str"   -> [err |-> "", val |-> VStr(<<Digits[idx + 1]>>)]
      [] OTHER           -> [err |-> "TypeError", val |-> VNone]

SetEnumCB(w, send, sig) ==
    LET nms == Split(send.name, ":")
        idx == send.val
    IN  IF Len(nms) < 2 THEN [w EXCEPT !.err = "IndexError"]
        ELSE IF nms[1] \notin DOMAIN w.classviews THEN [w EXCEPT !.err = "KeyError"]
        ELSE LET o    == w.views[w.classviews[nms[1]]].Class
                 flds == w.objs[o]
             IN  IF ~HasField(flds, nms[2]) THEN [w EXCEPT !.err = "KeyError"]
                 ELSE LET r == TypeCall(GetAttr(flds, nms[2]), idx)
                      IN  IF r.err # "" THEN [w EXCEPT !.err = r.err]
                          ELSE [w EXCEPT !.objs[o] = SetAttr(@, nms[2], r.val)]

\* ---------------------------------------------------------------- dialogs

\* cv.Frame = gi.Frame(frame.InsertNewChild(...)): a new Frame in the dialog
DialogFrame(w, v) ==
    [w EXCEPT !.conts = Append(@, NewCont), !.views[v].cont = Len(w.conts) + 1]

\* dlg.Open(0, 0, vp, go.nil) after cv.Config() has returned: the dialog's
\* window is shown; an exception of cv.Config() leaves before that
DialogOpen(w, o, v) ==
    IF w.err # "" THEN w
    ELSE [w EXCEPT !.dlgs = Append(@, [obj |-> o, view |-> v,
                                       visible |-> TRUE, raised |-> FALSE])]

\* ClassViewDialog(vp, obj, name, tags, opts)
ClassViewDialog(w, o, name) ==
    DialogOpen(ClassViewConfig(DialogFrame(NewClassView(w, o, name), Len(w.views) + 1),
                               Len(w.views) + 1),
               o, Len(w.views) + 1)

\* self.ClassViewDialog = ClassViewDialog(...), unless it raised
AssignDialog(w, o) ==
    IF w.err # "" THEN w ELSE [w EXCEPT !.objView[o].ClassViewDialog = Len(w.dlgs)]

\* OpenViewDialog without the test for a visible window
OpenViewDialogAlways(w, o, name) == AssignDialog(ClassViewDialog(w, o, name), o)

\* ClassViewObj.OpenViewDialog: the object's dialog raised if its window is
\* visible, a new dialog otherwise
OpenViewDialog(w, o, name) ==
    IF /\ w.objView[o].ClassViewDialog # 0
       /\ w.dlgs[w.objView[o].ClassViewDialog].visible
    THEN [w EXCEPT !.dlgs[w.objView[o].ClassViewDialog].raised = TRUE]
    ELSE AssignDialog(ClassViewDialog(w, o, name), o)

\* EditObjCB: the field's object asked to open its dialog, under the
\* control's name with every ':' turned into '_'
EditObjCB(w, send, sig) ==
    LET nms == Split(send.name, ":")
    IN  IF Len(nms) < 2 THEN [w EXCEPT !.err = "IndexError"]
        ELSE IF nms[1] \notin DOMAIN w.classviews THEN [w EXCEPT !.err = "KeyError"]
        ELSE LET flds == w.objs[w.views[w.classviews[nms[1]]].Class]
             IN  IF ~HasField(flds, nms[2]) THEN [w EXCEPT !.err = "AttributeError"]
                 ELSE IF GetAttr(flds, nms[2]).k # "obj"
                 THEN [w EXCEPT !.err = "AttributeError"]
                 ELSE OpenViewDialog(w, GetAttr(flds, nms[2]).n,
                                     Replace(send.name, ":", "_"))

\* ------------------------------------------------------------------- bounds

\* the user's edits and the application's own assignments in one run
MaxEvents == 2

\* ------------------------------------------------------------ initial states

ObjIds == {1, 2}

\* the attributes ClassViewObj.__init__ sets, ahead of the subclass's own
BaseFields ==
    << [nm |-> <<"Tags">>,                val |-> VInternal],
       [nm |-> <<"ClassView">>,           val |-> VInternal],
       [nm |-> <<"ClassView", "Inline">>, val |-> VInternal],
       [nm |-> <<"ClassView", "Dialog">>, val |-> VInternal] >>

Fld(nm, val) == [nm |-> <<nm>>, val |-> val]

Tag(key, value) == <<key, value>>

\* the applications: the fields and tags of object 1 (object 2 is the object
\* its field sub holds)
Scenarios ==
    { [flds |-> << Fld("count", VInt(3)), Fld("active", VBool(TRUE)),
                   Fld("label", VStr(<<"hi">>)) >>,
       tags |-> EmptyDict],
      [flds |-> << Fld("rate", VFloat(5)), Fld("gobj", VGo(FALSE)),
                   Fld("dir", VEnum(<<"Dir">>, 0)), Fld("secret", VInt(1)) >>,
       tags |-> (<<"rate">> :> << Tag("min", <<"0">>), Tag("max", <<"1", "0">>),
                                 Tag("step", <<"0", ".", "5">>) >>)
                @@ (<<"secret">> :> << Tag("view", <<"-">>) >>)],
      [flds |-> << Fld("sub", VObj(2)), Fld("color", VEnum(<<"Color">>, 1)),
                   Fld("other", VNone) >>,
       tags |-> (<<"sub">> :> << Tag("view", <<"inline">>) >>)
                @@ (<<"other">> :> << Tag("width", <<"8">>) >>)],
      [flds |-> << Fld("sub", VObj(2)), Fld("count", VInt(3)),
                   Fld("gobj", VGo(TRUE)) >>,
       tags |-> (<<"count">> :> << Tag("min", <<"0">>), Tag("max", <<"1", "0">>),
                                  Tag("step", <<"2">>) >>)
                @@ (<<"sub">> :> << Tag("desc", <<"nested">>) >>)],
      [flds |-> << Fld("n", VInt(3)), Fld("label", VStr(<<"hi">>)) >>,
       tags |-> (<<"n">> :> << Tag("min", <<"0">>), Tag("max", <<"ten">>),
                              Tag("step", <<"2">>) >>)],
      [flds |-> << Fld("b", VStr(<<"hi">>)), Fld("count", VInt(3)) >>,
       tags |-> EmptyDict] }

Obj2Fields == << Fld("x", VInt(1)), Fld("on", VBool(FALSE)) >>

Obj2Tags ==
    (<<"on">> :> << Tag("inactive", <<"+">>) >>)
    @@ (<<"x">> :> << Tag("step", <<"0", ".", "5">>) >>)

NoViews == [ClassView |-> 0, ClassViewInline |-> 0, ClassViewDialog |-> 0]

NoOp == [op |-> "init", v |-> 0, ref |-> <<>>, sig |-> "", nm |-> <<>>]

Init ==
    \E sc \in Scenarios :
        /\ objs = (1 :> (BaseFields \o sc.flds)) @@ (2 :> (BaseFields \o Obj2Fields))
        /\ tags = (1 :> sc.tags) @@ (2 :> Obj2Tags)
        /\ views = <<>>
        /\ conts = <<>>
        /\ classviews = EmptyDict
        /\ objView = [o \in ObjIds |-> NoViews]
        /\ dlgs = <<>>
        /\ err = ""
        /\ last = NoOp
        /\ events = 0

\* ------------------------------------------------------------------ actions

\* Views and containers that nothing refers to any more are dropped, as
\* Python drops them: a ClassViewInline is kept while the registry or an
\* object's ClassViewInline attribute holds it (a ClassView is held by the
\* application), a container while a kept view or a kept container holds it.
KeptDlgs(w) ==
    { d \in 1..Len(w.dlgs) :
        \/ w.dlgs[d].visible
        \/ \E o \in ObjIds : w.objView[o].ClassViewDialog = d }

KeptViews(w) ==
    { v \in 1..Len(w.views) :
        \/ w.views[v].kind = "ClassView" /\ \A d \in 1..Len(w.dlgs) : w.dlgs[d].view # v
        \/ \E d \in KeptDlgs(w) : w.dlgs[d].view = v
        \/ \E n \in DOMAIN w.classviews : w.classviews[n] = v
        \/ \E o \in ObjIds : v \in { w.objView[o].ClassViewInline, w.objView[o].ClassView } }

KeptConts(w) ==
    UNION { SubConts(w.conts, w.views[v].cont, Len(w.conts)) :
              v \in { u \in KeptViews(w) : w.views[u].cont # 0 } }

Rank(S, x) == IF x \in S THEN Cardinality({ y \in S : y <= x }) ELSE 0

Nth(S, i) == CHOOSE x \in S : Rank(S, x) = i

MapRef(S, ref) == IF ref = <<>> THEN ref ELSE <<Rank(S, ref[1]), ref[2]>>

Collect(w) ==
    LET kv == KeptViews(w)
        kc == KeptConts(w)
        kd == KeptDlgs(w)
        vw(v) == [w.views[v] EXCEPT
                    !.cont = Rank(kc, @),
                    !.Views = [nm \in DOMAIN @ |-> MapRef(kc, @[nm])],
                    !.Widgets = [nm \in DOMAIN @ |-> MapRef(kc, @[nm])]]
        wdg(wd) == IF wd.wk = "Layout" THEN [wd EXCEPT !.val = Rank(kc, @)] ELSE wd
        ct(c) == [w.conts[c] EXCEPT
                    !.children = [i \in 1..Len(@) |-> wdg(@[i])]]
    IN  [w EXCEPT
           !.views = [i \in 1..Cardinality(kv) |-> vw(Nth(kv, i))],
           !.conts = [i \in 1..Cardinality(kc) |-> ct(Nth(kc, i))],
           !.classviews = [n \in DOMAIN @ |-> Rank(kv, @[n])],
           !.dlgs = [i \in 1..Cardinality(kd) |->
                        [w.dlgs[Nth(kd, i)] EXCEPT !.view = Rank(kv, @)]],
           !.objView = [o \in ObjIds |->
                          [@[o] EXCEPT !.ClassView = Rank(kv, @),
                                       !.ClassViewInline = Rank(kv, @),
                                       !.ClassViewDialog = Rank(kd, @)]]]

\* the state an operation leaves, whether it returned or raised
Commit(w, l) ==
    \E g \in { Collect(w) } :
        /\ objs' = g.objs
        /\ views' = g.views
        /\ conts' = g.conts
        /\ classviews' = g.classviews
        /\ objView' = g.objView
        /\ dlgs' = g.dlgs
        /\ err' = g.err
        /\ last' = [l EXCEPT !.v = Rank(KeptViews(w), @),
                             !.ref = MapRef(KeptConts(w), @)]
        /\ UNCHANGED tags

\* an operation: its result computed once, then left as the state
Do(result, l) == \E w \in { result } : Commit(w, l)

\* the views the application opens: object 1 under the name "a" or under
\* "a:b", and after it object 2 under "a"; each at most once
AppViews ==
    << [o |-> 1, name |-> <<"a">>],
       [o |-> 1, name |-> <<"a", ":", "b">>],
       [o |-> 2, name |-> <<"a">>] >>

AppViewSets == { {1}, {2}, {1, 3}, {2, 3} }

\* the object with a field b is also shown in two forms at once, "a" and "a:b"
TwoFormSets(flds) == IF HasField(flds, <<"b">>) THEN { {1, 2} } ELSE {}

Opened ==
    { k \in 1..Len(AppViews) :
        \E v \in 1..Len(views) :
            /\ views[v].kind = "ClassView"
            /\ views[v].Class = AppViews[k].o
            /\ views[v].Name = AppViews[k].name }

\* ClassView.AddFrame(par): a new Frame in the parent
AddFrame(w, v) ==
    [w EXCEPT !.conts = Append(@, NewCont), !.views[v].cont = Len(w.conts) + 1]

\* cv = obj.NewClassView(name); cv.AddFrame(par)
DoNewClassView(k) ==
    /\ \A j \in Opened : j < k
    /\ Opened \cup {k} \in AppViewSets \cup TwoFormSets(objs[1])
    /\ UNCHANGED events
    /\ Do(AddFrame(NewClassView(World, AppViews[k].o, AppViews[k].name),
                   Len(views) + 1),
              [NoOp EXCEPT !.op = "NewClassView", !.v = Len(views) + 1])

\* view.Config(), of a view the application holds (the inline views are built
\* and refreshed through the forms that embed them)
Config(w, v) ==
    IF w.views[v].kind = "ClassView" THEN ClassViewConfig(w, v)
    ELSE ClassViewInlineConfig(w, v)

DoConfig(v) ==
    /\ views[v].kind = "ClassView"
    /\ UNCHANGED events
    /\ Do(Config(World, v), [NoOp EXCEPT !.op = "Config", !.v = v])

\* view.Update()
DoUpdate(v) ==
    /\ views[v].kind = "ClassView"
    /\ UNCHANGED events
    /\ Do(ViewUpdate(World, v, Cardinality(ObjIds) + 1),
          [NoOp EXCEPT !.op = "Update", !.v = v])

\* ------------------------------------------------------------------ signals

\* the controls the user can act on: children of a container that has not
\* been destroyed, not set inactive
Refs == UNION { {c} \X (1..Len(conts[c].children)) : c \in 1..Len(conts) }

Editable(ref, kind) ==
    /\ conts[ref[1]].live
    /\ Child(conts, ref).wk = kind
    /\ ~Child(conts, ref).inactive

\* the callback a control's signal is connected to
Callback(w, send, sig) ==
    CASE send.cb = "SetIntValCB"   -> SetIntValCB(w, send, sig)
      [] send.cb = "SetFloatValCB" -> SetFloatValCB(w, send, sig)
      [] send.cb = "SetStrValCB"   -> SetStrValCB(w, send, sig)
      [] send.cb = "SetBoolValCB"  -> SetBoolValCB(w, send, sig)
      [] send.cb = "SetEnumCB"     -> SetEnumCB(w, send, sig)
      [] send.cb = "EditObjCB"     -> EditObjCB(w, send, sig)
      [] OTHER                     -> w

\* the control, as the user's edit leaves it, sends its signal
Emit(ref, wd, sig, op) ==
    /\ events < MaxEvents
    /\ events' = events + 1
    /\ Do(Callback(SetChild(World, ref, wd), wd, sig),
          [NoOp EXCEPT !.op = op, !.ref = ref, !.sig = sig])

\* the values a user enters in a spin box: 2.5, -1.5, 12
SpinVals == { 5, 0 - 3, Num(12) }

SpinSigs == { "0" }

\* gi.SpinBox.SetValueAction(V): the value set (within the bounds), SpinBoxSig sent
SpinBoxSig(ref, V, sig) ==
    /\ Editable(ref, "SpinBox")
    /\ Emit(ref, SpinSetValue(Child(conts, ref), V), sig, "SpinBoxSig")

\* the user picks item I of a combo box: CurIndex set, ComboSig sent with the index
ComboSig(ref, I) ==
    /\ Editable(ref, "ComboBox")
    /\ I < Len(Child(conts, ref).items)
    /\ Emit(ref, [Child(conts, ref) EXCEPT !.val = I], Digits[I + 1], "ComboSig")

ButtonSigs == { "ButtonClicked", "ButtonToggled" }

\* a click on a check box: ButtonToggled follows the change of state, the
\* other button signals come with the state as it is
ButtonSig(ref, sig) ==
    /\ Editable(ref, "CheckBox")
    /\ Emit(ref, IF sig = "ButtonToggled"
                 THEN [Child(conts, ref) EXCEPT !.val = 1 - @]
                 ELSE Child(conts, ref), sig, "ButtonSig")

TextSigs == { "TextFieldDone", "TextFieldInsert" }

Texts == { <<"bye">> }

\* the user types T in a text field (TextFieldInsert) or types and commits
\* it (TextFieldDone)
TextFieldSig(ref, T, sig) ==
    /\ Editable(ref, "TextField")
    /\ Emit(ref, [Child(conts, ref) EXCEPT !.text = T], sig, "TextFieldSig")

\* the user activates an action control: ActionSig sent
ActionSig(ref) ==
    /\ Editable(ref, "Action")
    /\ Emit(ref, Child(conts, ref), "ActionTriggered", "ActionSig")

\* the user closes a dialog's window: the window and the controls in it are gone
CloseDialog(d) ==
    /\ dlgs[d].visible
    /\ UNCHANGED events
    /\ Do([World EXCEPT
             !.dlgs[d].visible = FALSE,
             !.conts = [c \in 1..Len(conts) |->
                          IF c \in SubConts(conts, views[dlgs[d].view].cont, Len(conts))
                          THEN [conts[c] EXCEPT !.live = FALSE] ELSE conts[c]]],
          [NoOp EXCEPT !.op = "CloseDialog", !.v = dlgs[d].view])

\* ------------------------------------------------------- the application

\* what the application assigns to the attributes of object 1 on its own
ExtNames == { <<"count">> }

\* count set to an int, to a str or to a Go object; gobj set to an int
ExtSets ==
    { [nm |-> <<"count">>, val |-> VInt(7)],
      [nm |-> <<"count">>, val |-> VStr(<<"x">>)],
      [nm |-> <<"count">>, val |-> VGo(TRUE)],
      [nm |-> <<"gobj">>,  val |-> VInt(7)] }

\* setattr by the application, outside any form: count = 7 is also given to
\* an object without the attribute, the others replace an attribute it has
ExtSetAttr(nm, val) ==
    /\ (val = VInt(7) /\ nm = <<"count">>) \/ HasField(objs[1], nm)
    /\ events < MaxEvents
    /\ events' = events + 1
    /\ objs' = [objs EXCEPT ![1] = SetAttr(@, nm, val)]
    /\ objs' # objs
    /\ err' = ""
    /\ last' = [NoOp EXCEPT !.op = "ExtSetAttr", !.nm = nm]
    /\ UNCHANGED <<tags, views, conts, classviews, objView, dlgs>>

\* delattr by the application
ExtDelAttr(nm) ==
    /\ HasField(objs[1], nm)
    /\ events < MaxEvents
    /\ events' = events + 1
    /\ objs' = [objs EXCEPT ![1] = DelAttr(@, nm)]
    /\ err' = ""
    /\ last' = [NoOp EXCEPT !.op = "ExtDelAttr", !.nm = nm]
    /\ UNCHANGED <<tags, views, conts, classviews, objView, dlgs>>

Next ==
    \/ \E k \in 1..Len(AppViews) : DoNewClassView(k)
    \/ \E v \in 1..Len(views) : DoConfig(v)
    \/ \E v \in 1..Len(views) : DoUpdate(v)
    \/ \E ref \in Refs, V \in SpinVals, sig \in SpinSigs : SpinBoxSig(ref, V, sig)
    \/ \E ref \in Refs, I \in 0..3 : ComboSig(ref, I)
    \/ \E ref \in Refs, sig \in ButtonSigs : ButtonSig(ref, sig)
    \/ \E ref \in Refs, T \in Texts, sig \in TextSigs : TextFieldSig(ref, T, sig)
    \/ \E ref \in Refs : ActionSig(ref)
    \/ \E d \in 1..Len(dlgs) : CloseDialog(d)
    \/ \E e \in ExtSets : ExtSetAttr(e.nm, e.val)
    \/ \E nm \in ExtNames : ExtDelAttr(nm)

Spec == Init /\ [][Next]_vars

\* ------------------------------------------------------------- observations

SignalOps == { "SpinBoxSig", "ComboSig", "ButtonSig", "TextFieldSig" }

\* the fields Config renders: neither hidden by view:"-" nor bookkeeping
Renderable(o, nm) ==
    /\ StructTagVal("view", FieldTags(o, nm)) # <<"-">>
    /\ nm # <<"Tags">>
    /\ ~StartsWith(nm, "ClassView")

\* field nm of view u is bound to a control that exists
Bound(u, nm) ==
    /\ nm \in DOMAIN views[u].Widgets
    /\ HasChild(conts, views[u].Widgets[nm])

\* the control field nm of view u is bound to
Control(u, nm) == Child(conts, views[u].Widgets[nm])

\* the views the last Config built: the view itself and the inline views
\* embedded in its container
BuiltViews ==
    { u \in 1..Len(views) :
        /\ views[u].cont # 0
        /\ views[u].cont \in SubConts(conts, views[last.v].cont, Len(conts)) }

\* the kind of control the dispatch table gives a value
KindByTable(val, tgs) ==
    CASE val.k = "enum" -> "ComboBox"
      [] val.k = "obj"  -> IF StructTagVal("view", tgs) = <<"inline">>
                           THEN "Layout" ELSE "Action"
      [] val.k = "bool" -> "CheckBox"
      [] val.k \in {"int", "float"} -> "SpinBox"
      [] OTHER -> "TextField"

\* the view whose container holds the control ref, and the field that view
\* binds the control to
ViewOfCont(c) == CHOOSE u \in 1..Len(views) : views[u].cont = c

FieldOfRef(u, ref) ==
    CHOOSE nm \in DOMAIN views[u].Widgets : views[u].Widgets[nm] = ref

IsBound(ref) ==
    \E u \in 1..Len(views) :
        /\ views[u].cont = ref[1]
        /\ \E nm \in DOMAIN views[u].Widgets : views[u].Widgets[nm] = ref

\* the registry holds view u under its name
Registered(u) ==
    /\ views[u].Name \in DOMAIN classviews
    /\ classviews[views[u].Name] = u

ColonFree(name) == \A i \in 1..Len(name) : name[i] # ":"

\* the members of an enumeration other than <TypeName>N, in definition order
RECURSIVE NonSentinel(_, _)
NonSentinel(ms, typ) ==
    IF ms = <<>> THEN <<>>
    ELSE IF ms[1].name = typ \o <<"N">> THEN NonSentinel(Tail(ms), typ)
    ELSE <<ms[1]>> \o NonSentinel(Tail(ms), typ)

\* objects fs1 and fs2 (two __dict__s) differ at most in field nm
SameBut(fs1, fs2, nm) ==
    \A i \in 1..Len(fs1) :
        fs1[i].nm # nm => (HasField(fs2, fs1[i].nm) /\ GetAttr(fs2, fs1[i].nm) = fs1[i].val)

\* the control wd shows the value val; a control of another kind than the
\* value's, a nested object and a Go object show nothing to compare
ShowsValue(wd, val) ==
    CASE val.k = "enum" /\ wd.wk = "ComboBox" ->
             /\ wd.val < Len(wd.items)
             /\ wd.items[wd.val + 1] = EnumName(val.s, val.n)
      [] val.k = "bool" /\ wd.wk = "CheckBox" -> wd.val = val.n
      [] val.k \in {"int", "float"} /\ wd.wk = "SpinBox" -> wd.val = val.n
      [] val.k \in {"str", "none"} /\ wd.wk = "TextField" -> wd.text = PyStr(val)
      [] OTHER -> TRUE

\* every control view u binds to a Python field shows the field's value
Synced(u) ==
    \A i \in 1..Len(objs[views[u].Class]) :
        LET f == objs[views[u].Class][i]
        IN  (Bound(u, f.nm) /\ f.nm \notin DOMAIN views[u].Views) =>
                ShowsValue(Control(u, f.nm), f.val)

\* the views Update of view v refreshes: v, and the ClassViewInline and the
\* ClassView of the nested objects its bound fields hold
Reached(v) ==
    {v} \cup
    ( UNION { { objView[f.val.n].ClassViewInline, objView[f.val.n].ClassView } :
                f \in { g \in { objs[views[v].Class][i] :
                                   i \in 1..Len(objs[views[v].Class]) } :
                           g.val.k = "obj" /\ Bound(v, g.nm) } } \ {0} )

UpdateShown == \A u \in Reached(last.v) : Synced(u)

\* the children of container c that are controls, and those that are labels
ControlsOf(c) ==
    LET IsControl(wd) == wd.wk # "Label"
    IN  SelectSeq(conts[c].children, IsControl)

LabelsOf(c) ==
    LET IsLabel(wd) == wd.wk = "Label"
    IN  SelectSeq(conts[c].children, IsLabel)

IsNilGo(val) == val.k = "go" /\ val.n = 0

\* the fields of view u's object that Config labels, and those it gives a control
FieldsLabelled(u) ==
    LET Keep(f) == Renderable(views[u].Class, f.nm)
    IN  SelectSeq(objs[views[u].Class], Keep)

FieldsShown(u) ==
    LET Keep(f) == Renderable(views[u].Class, f.nm) /\ ~IsNilGo(f.val)
    IN  SelectSeq(objs[views[u].Class], Keep)

\* the name of the control of field f in view u
ControlName(u, f) ==
    IF f.val.k = "obj" /\ StructTagVal("view", FieldTags(views[u].Class, f.nm)) = <<"inline">>
    THEN views[u].Name \o <<"_">> \o f.nm
    ELSE views[u].Name \o <<":">> \o f.nm

\* view u's container and bindings are those of one build from the object
\* as it is: a label per labelled field and a control per shown field, in
\* field order, each control bound under its field and nothing else bound
BuiltExactly(u) ==
    LET c  == views[u].cont
        fs == FieldsShown(u)
        ls == FieldsLabelled(u)
    IN  /\ Len(ControlsOf(c)) = Len(fs)
        /\ \A i \in 1..Len(fs) :
               /\ ControlsOf(c)[i].name = ControlName(u, fs[i])
               /\ Bound(u, fs[i].nm)
               /\ Control(u, fs[i].nm) = ControlsOf(c)[i]
        /\ DOMAIN views[u].Widgets = { fs[i].nm : i \in 1..Len(fs) }
        /\ DOMAIN views[u].Views =
               { fs[i].nm : i \in { j \in 1..Len(fs) : fs[j].val.k = "go" } }
        /\ Len(LabelsOf(c)) = Len(ls)
        /\ \A i \in 1..Len(ls) : LabelsOf(c)[i].name = <<"lbl_">> \o ls[i].nm

Rebuilt == \A u \in BuiltViews : BuiltExactly(u)

\* ------------------------------------------------------------------ claims

\* C1: after Config, every rendered field that is not a Go object has the
\* control the dispatch table names for its value, first match wins:
\* enum -> combo box; nested object -> inline form (a Layout holding a
\* ClassViewInline of that object) under view:"inline", else an action;
\* bool -> check box (never a spin box); int or float -> spin box; anything
\* else -> text field.  When Config returned, every such field is bound to
\* that control; when it raised, the controls it had created by then (bound
\* or not) are of the kind the table names.
C1_DispatchTable ==
    last.op = "Config" =>
        \A u \in BuiltViews : \A i \in 1..Len(objs[views[u].Class]) :
            LET o == views[u].Class
                f == objs[o][i]
                c == conts[views[u].cont].children
            IN  (Renderable(o, f.nm) /\ f.val.k # "go") =>
                    /\ err = "" => Bound(u, f.nm)
                    /\ \A j \in 1..Len(c) :
                           c[j].name = ControlName(u, f) =>
                               c[j].wk = KindByTable(f.val, FieldTags(o, f.nm))
                    /\ Bound(u, f.nm) =>
                           /\ Control(u, f.nm).wk = KindByTable(f.val, FieldTags(o, f.nm))
                           /\ Control(u, f.nm).wk = "Layout" =>
                                  \E sv \in 1..Len(views) :
                                      /\ views[sv].kind = "ClassViewInline"
                                      /\ views[sv].Class = f.val.n
                                      /\ views[sv].cont = Control(u, f.nm).val

\* C1 witness: a Config has built a check box for a boolean field, a text
\* field for a value of no recognised kind (None), a combo box, a spin box
\* and an inline form
C1_Witness ==
    /\ last.op = "Config"
    /\ err = ""
    /\ \E u \in BuiltViews : \E i \in 1..Len(objs[views[u].Class]) :
           LET f == objs[views[u].Class][i]
           IN  f.val.k = "bool" /\ Bound(u, f.nm) /\ Control(u, f.nm).wk = "CheckBox"
    /\ \E u \in BuiltViews : \E i \in 1..Len(objs[views[u].Class]) :
           LET f == objs[views[u].Class][i]
           IN  f.val.k = "none" /\ Bound(u, f.nm) /\ Control(u, f.nm).wk = "TextField"
    /\ \E u \in BuiltViews : \E i \in 1..Len(objs[views[u].Class]) :
           LET f == objs[views[u].Class][i]
           IN  f.val.k = "obj" /\ Bound(u, f.nm) /\ Control(u, f.nm).wk = "Layout"

\* C2: when a control's change signal arrives and the form-name part of its
\* identifier (the text before the first ':') is not a key of classviews,
\* the callback is a no-op: it raises nothing and no field of any object
\* changes.
C2_UnknownFormIsNoOp ==
    [][ ( /\ last'.op \in SignalOps
          /\ Split(Child(conts', last'.ref).name, ":")[1] \notin DOMAIN classviews )
        => (err' = "" /\ objs' = objs) ]_vars

\* C3: in a form registered under a name without ':', a combo signal with
\* index I (below the number of listed items) leaves the bound enumeration
\* field holding the member at position I among the non-sentinel members in
\* definition order, the member whose name item I shows.
C3_ComboSetsMemberAtIndex ==
    (last.op = "ComboSig" /\ IsBound(last.ref)) =>
        LET u  == ViewOfCont(last.ref[1])
            nm == FieldOfRef(u, last.ref)
            wd == Child(conts, last.ref)
            fs == objs[views[u].Class]
        IN  (Registered(u) /\ ColonFree(views[u].Name) /\ HasField(fs, nm)
             /\ GetAttr(fs, nm).k = "enum") =>
                LET typ == GetAttr(fs, nm).s
                    ms  == NonSentinel(EnumMembers(typ), typ)
                IN  /\ wd.val < Len(ms)
                    /\ GetAttr(fs, nm) = VEnum(typ, ms[wd.val + 1].value)
                    /\ wd.items[wd.val + 1] = ms[wd.val + 1].name

\* C4: in a form registered under a name without ':', when the spin box of
\* a numeric field holds V as its signal fires and Update follows the
\* write-back, the spin box shows V and the field holds V.
C4_NumericRoundTrip ==
    [][ ( /\ last.op = "SpinBoxSig"
          /\ last'.op = "Update"
          /\ IsBound(last.ref)
          /\ views[ViewOfCont(last.ref[1])].kind = "ClassView"
          /\ last'.v = ViewOfCont(last.ref[1])
          /\ Registered(last'.v)
          /\ ColonFree(views[last'.v].Name) )
        => LET u  == ViewOfCont(last.ref[1])
               nm == FieldOfRef(u, last.ref)
               V  == Child(conts, last.ref).val
               fs == objs'[views[u].Class]
           IN  /\ Child(conts', last.ref).val = V
               /\ HasField(fs, nm)
               /\ GetAttr(fs, nm).k \in {"int", "float"}
               /\ GetAttr(fs, nm).n = V ]_vars

\* C5: committing text T (TextFieldDone) in the text control of field F of
\* a registered form sets field F of the form's object to T and changes no
\* other field of that object, no other object, no registry entry and no
\* binding.
C5_TextCommitFrame ==
    [][ ( /\ last'.op = "TextFieldSig"
          /\ last'.sig = "TextFieldDone"
          /\ IsBound(last'.ref)
          /\ Registered(ViewOfCont(last'.ref[1])) )
        => LET u  == ViewOfCont(last'.ref[1])
               nm == FieldOfRef(u, last'.ref)
               o  == views[u].Class
               T  == Child(conts', last'.ref).text
           IN  /\ HasField(objs'[o], nm)
               /\ GetAttr(objs'[o], nm) = VStr(T)
               /\ SameBut(objs[o], objs'[o], nm)
               /\ SameBut(objs'[o], objs[o], nm)
               /\ \A p \in ObjIds \ {o} : objs'[p] = objs[p]
               /\ classviews' = classviews
               /\ views' = views ]_vars

\* C6: Update performs no write-back: it changes no field of any object and
\* raises nothing, and afterwards every control of the refreshed views whose
\* kind matches its field's value shows that value.
C6_UpdateReadsOnly ==
    [][ last'.op = "Update" => (objs' = objs /\ err' = "" /\ UpdateShown') ]_vars

\* C6 witness: count was set to 7 outside the form, Update has run, the spin
\* box shows 7 and count is still 7
C6_Witness ==
    /\ last.op = "Update"
    /\ events >= 1
    /\ HasField(objs[1], <<"count">>)
    /\ GetAttr(objs[1], <<"count">>) = VInt(7)
    /\ views[last.v].Class = 1
    /\ Bound(last.v, <<"count">>)
    /\ Control(last.v, <<"count">>).wk = "SpinBox"
    /\ Control(last.v, <<"count">>).val = Num(7)

\* C7: Config is a full rebuild: after it the container and the bindings of
\* the view (and of the inline views it embeds) are exactly those of one
\* build from the object's fields as they are, in field order, whatever was
\* there before; and a Config that follows a Config of the same view changes
\* nothing.
C7_ConfigRebuilds ==
    [][ last'.op = "Config" =>
          /\ err' = ""
          /\ Rebuilt'
          /\ (last.op = "Config" /\ last.v = last'.v) =>
                 UNCHANGED <<objs, views, conts, classviews, objView>> ]_vars

\* C8: a field tagged view:"-" is never in a form: no view of its object
\* binds it in Views or Widgets, and the view's container holds no label
\* for it and no control whose identifier names it.
C8_HiddenFieldAbsent ==
    \A u \in 1..Len(views) : \A i \in 1..Len(objs[views[u].Class]) :
        LET nm == objs[views[u].Class][i].nm
        IN  StructTagVal("view", FieldTags(views[u].Class, nm)) = <<"-">> =>
                /\ nm \notin DOMAIN views[u].Views
                /\ nm \notin DOMAIN views[u].Widgets
                /\ views[u].cont # 0 =>
                       \A j \in 1..Len(conts[views[u].cont].children) :
                           LET name == conts[views[u].cont].children[j].name
                               p    == Split(name, ":")
                           IN  name # <<"lbl_">> \o nm /\ p[Len(p)] # nm

\* C8 witness: a Config has built the form of an object that has a field
\* tagged view:"-", and bound its other fields
C8_Witness ==
    /\ last.op = "Config"
    /\ HasField(objs[views[last.v].Class], <<"secret">>)
    /\ StructTagVal("view", FieldTags(views[last.v].Class, <<"secret">>)) = <<"-">>
    /\ Bound(last.v, <<"rate">>)
    /\ Bound(last.v, <<"dir">>)

\* C9: when Config meets a nil Go object it skips the field: the build goes
\* on, every other rendered field has its label and its control exactly
\* once, and the skipped field leaves no label, no control and no binding.
C9_NilFieldLeavesNothing ==
    ( /\ last.op = "Config"
      /\ \E i \in 1..Len(objs[views[last.v].Class]) :
             IsNilGo(objs[views[last.v].Class][i].val) ) =>
        /\ err = ""
        /\ \A u \in BuiltViews :
               LET c  == views[u].cont
                   o  == views[u].Class
                   Named(name) == { j \in 1..Len(conts[c].children) :
                                      conts[c].children[j].name = name }
               IN  \A i \in 1..Len(objs[o]) :
                       LET f == objs[o][i]
                       IN  /\ (Renderable(o, f.nm) /\ ~IsNilGo(f.val)) =>
                                  /\ Cardinality(Named(<<"lbl_">> \o f.nm)) = 1
                                  /\ Cardinality(Named(ControlName(u, f))) = 1
                                  /\ f.nm \in DOMAIN views[u].Widgets
                           /\ IsNilGo(f.val) =>
                                  /\ Named(<<"lbl_">> \o f.nm) = {}
                                  /\ Named(ControlName(u, f)) = {}
                                  /\ f.nm \notin DOMAIN views[u].Widgets
                                  /\ f.nm \notin DOMAIN views[u].Views

\* C10: only terminal signals commit: a text-field signal other than
\* TextFieldDone and a check-box signal other than ButtonToggled change no
\* field of any object, while every spin-box and combo-box signal commits:
\* its callback completes and leaves a field holding the value it converts
\* the control's state to.
C10_OnlyTerminalSignalsCommit ==
    [][ /\ (last'.op = "TextFieldSig" /\ last'.sig # "TextFieldDone") => objs' = objs
        /\ (last'.op = "ButtonSig" /\ last'.sig # "ButtonToggled") => objs' = objs
        /\ last'.op = "SpinBoxSig" =>
               /\ err' = ""
               /\ \E o \in ObjIds : \E i \in 1..Len(objs'[o]) :
                      /\ objs'[o][i].val.k \in {"int", "float"}
                      /\ objs'[o][i].val.n \in { Child(conts', last'.ref).val,
                                                  PyInt(Child(conts', last'.ref).val) }
        /\ last'.op = "ComboSig" =>
               /\ err' = ""
               /\ \E o \in ObjIds : \E i \in 1..Len(objs'[o]) :
                      objs'[o][i].val.k = "enum" ]_vars

\* the bindings of every view have the same keys in both states of a step,
\* and no container has gained or lost a child
SameBindings ==
    /\ Len(views') = Len(views)
    /\ \A u \in 1..Len(views) :
           /\ DOMAIN views'[u].Widgets = DOMAIN views[u].Widgets
           /\ DOMAIN views'[u].Views = DOMAIN views[u].Views
    /\ Len(conts') = Len(conts)
    /\ \A c \in 1..Len(conts) : Len(conts'[c].children) = Len(conts[c].children)

\* a field of view v's object that Config renders with a control, and that
\* v does not bind
UnboundField(v, nm) ==
    /\ HasField(objs[views[v].Class], nm)
    /\ Renderable(views[v].Class, nm)
    /\ ~IsNilGo(GetAttr(objs[views[v].Class], nm))
    /\ nm \notin DOMAIN views[v].Widgets

\* C11: Update creates and removes no binding and no control: the key sets
\* of Views and Widgets of every view are the same after it as before and it
\* raises nothing, so a field added after the last Config stays unbound; the
\* next Config of the view (here: the Config that follows the assignment that
\* added the field to an object whose form was built) binds it.
C11_UpdateKeepsBindings ==
    [][ /\ last'.op = "Update" => (SameBindings /\ err' = "")
        /\ ( /\ last.op = "ExtSetAttr"
             /\ last'.op = "Config"
             /\ views[last'.v].Class = 1
             /\ Len(conts[views[last'.v].cont].children) > 0
             /\ UnboundField(last'.v, last.nm) )
           => last.nm \in DOMAIN views'[last'.v].Widgets ]_vars

\* the kind of control Config would build for the value now: the value
\* view's widget for a Go object, else what the dispatch table gives
KindNow(val, tgs) == IF val.k = "go" THEN "GoView" ELSE KindByTable(val, tgs)

\* field nm of view u is bound to a control of another kind than Config
\* would build for the field's value now
Mismatch(u, nm) ==
    /\ HasField(objs[views[u].Class], nm)
    /\ Bound(u, nm)
    /\ Control(u, nm).wk # KindNow(GetAttr(objs[views[u].Class], nm),
                                   FieldTags(views[u].Class, nm))

\* C12: when the control bound to a field is of another kind than the
\* classifier would now pick for the field's value (a Go object at Config
\* that is a Python value now, and the reverse, included), Update leaves
\* that control as it is, raises nothing, and refreshes every other bound
\* field.
C12_MismatchSkipped ==
    [][ last'.op = "Update" =>
          /\ err' = ""
          /\ UpdateShown'
          /\ \A u \in 1..Len(views) : \A nm \in DOMAIN views[u].Widgets :
                 Mismatch(u, nm) => Control(u, nm)' = Control(u, nm) ]_vars

\* the dialogs of object o whose window is visible
VisibleDlgs(o) == { d \in 1..Len(dlgs) : dlgs[d].obj = o /\ dlgs[d].visible }

\* the object an action control's signal asks to open its dialog: the
\* nested object held by the field the control's name resolves to, 0 if none
ActionTarget(ref) ==
    LET nms == Split(Child(conts, ref).name, ":")
    IN  IF Len(nms) >= 2 /\ nms[1] \in DOMAIN classviews
           /\ HasField(objs[views[classviews[nms[1]]].Class], nms[2])
           /\ GetAttr(objs[views[classviews[nms[1]]].Class], nms[2]).k = "obj"
        THEN GetAttr(objs[views[classviews[nms[1]]].Class], nms[2]).n
        ELSE 0

\* C13: an activation for an object that has a dialog with a visible
\* window raises that window and creates nothing: no dialog, no view, no
\* control, no registry entry, no change of any object; a dialog is opened
\* only for an object without a visible dialog, so that after every step
\* each object has at most one visible editor dialog.
C13_OneVisibleDialog ==
    [][ /\ \A o \in ObjIds : Cardinality(VisibleDlgs(o)') <= 1
        /\ ( /\ last'.op = "ActionSig"
             /\ ActionTarget(last'.ref) # 0
             /\ VisibleDlgs(ActionTarget(last'.ref)) # {} )
           => /\ err' = ""
              /\ UNCHANGED <<objs, views, conts, classviews, objView>>
              /\ Len(dlgs') = Len(dlgs)
              /\ \A d \in 1..Len(dlgs) :
                     dlgs'[d] = IF d \in VisibleDlgs(ActionTarget(last'.ref))
                                THEN [dlgs[d] EXCEPT !.raised = TRUE]
                                ELSE dlgs[d] ]_vars

\* C13 witness: the action control of sub was activated while sub's dialog
\* was open: the dialog's window was raised, and it is the only dialog
C13_Witness ==
    /\ last.op = "ActionSig"
    /\ err = ""
    /\ objView[2].ClassViewDialog # 0
    /\ dlgs[objView[2].ClassViewDialog].visible
    /\ dlgs[objView[2].ClassViewDialog].raised
    /\ Len(dlgs) = 1

\* the tag value mv is present and float(mv) is a number
Parseable(mv) == mv # <<>> /\ ParseFloat(mv).ok

\* the spin box wd of a field with value val has its bound and increment
\* set from each of min, max, step that is present and parseable, and left
\* at the default otherwise (no bound; increment 1 on an int, unset on a float)
TagsApplied(wd, val, tgs) ==
    /\ wd.hasMin = Parseable(TagValue(tgs, "min"))
    /\ wd.hasMin => wd.min = ParseFloat(TagValue(tgs, "min")).n
    /\ wd.hasMax = Parseable(TagValue(tgs, "max"))
    /\ wd.hasMax => wd.max = ParseFloat(TagValue(tgs, "max")).n
    /\ wd.step = IF Parseable(TagValue(tgs, "step"))
                 THEN ParseFloat(TagValue(tgs, "step")).n
                 ELSE IF val.k = "int" THEN Num(1) ELSE 0

\* C14: Config gives every rendered int or float field a spin box on which
\* each of min, max, step is applied exactly when the tag is present and
\* parseable as a number and left at its default otherwise (increment 1 on
\* an int); a tag that does not parse stops nothing: Config returns and
\* every rendered field has its control.
C14_NumericTags ==
    last.op = "Config" =>
        /\ err = ""
        /\ \A u \in BuiltViews : \A i \in 1..Len(objs[views[u].Class]) :
               LET o == views[u].Class
                   f == objs[o][i]
               IN  /\ (Renderable(o, f.nm) /\ ~IsNilGo(f.val)) => Bound(u, f.nm)
                   /\ (Renderable(o, f.nm) /\ f.val.k \in {"int", "float"}) =>
                          /\ Control(u, f.nm).wk = "SpinBox"
                          /\ TagsApplied(Control(u, f.nm), f.val, FieldTags(o, f.nm))

\* the signals on which a callback assigns: every spin-box and combo-box
\* signal, TextFieldDone, ButtonToggled
Commits(l) ==
    \/ l.op \in {"SpinBoxSig", "ComboSig"}
    \/ l.op = "TextFieldSig" /\ l.sig = "TextFieldDone"
    \/ l.op = "ButtonSig" /\ l.sig = "ButtonToggled"

\* the field value val is what the callback of control wd converts the
\* control's state to
Converted(wd, val) ==
    CASE wd.wk = "SpinBox"   -> val.k \in {"int", "float"} /\ val.n \in {wd.val, PyInt(wd.val)}
      [] wd.wk = "CheckBox"  -> val = VBool(wd.val # 0)
      [] wd.wk = "TextField" -> val = VStr(wd.text)
      [] wd.wk = "ComboBox"  -> val.k = "enum"
      [] OTHER -> FALSE

\* C15: the registry only grows or overwrites: no step removes a name, every
\* entry is a view of that name, and a ClassView constructed under a name is
\* that name's entry from then on; and a committing signal from the control
\* a view named N built for field F leaves field F of the object of
\* classviews[N] (the view most recently constructed under N, whatever
\* object the control was built for) holding the converted value.
C15_RegistryLatestWins ==
    [][ /\ DOMAIN classviews \subseteq DOMAIN classviews'
        /\ \A n \in DOMAIN classviews' : views'[classviews'[n]].Name = n
        /\ last'.op = "NewClassView" =>
               /\ views'[last'.v].Name \in DOMAIN classviews'
               /\ classviews'[views'[last'.v].Name] = last'.v
        /\ (Commits(last') /\ IsBound(last'.ref)) =>
               LET u  == ViewOfCont(last'.ref[1])
                   nm == FieldOfRef(u, last'.ref)
                   o  == views[classviews[views[u].Name]].Class
               IN  /\ err' = ""
                   /\ HasField(objs'[o], nm)
                   /\ Converted(Child(conts', last'.ref), GetAttr(objs'[o], nm)) ]_vars

\* the control wd is the one PyObjView would build for val now: of the kind
\* the classifier picks, a spin box with the callback of val's type (int or
\* float), a combo box listing the members of val's enumeration type
FitsValue(wd, val, tgs) ==
    /\ wd.wk = KindNow(val, tgs)
    /\ wd.wk = "SpinBox" =>
           wd.cb = IF val.k = "int" THEN "SetIntValCB" ELSE "SetFloatValCB"
    /\ wd.wk = "ComboBox" => wd.items = EnumItems(EnumMembers(val.s), val.s \o <<"N">>)

\* every field view u binds holds a value its control fits
KindFits(u) ==
    \A nm \in DOMAIN views[u].Widgets :
        /\ HasField(objs[views[u].Class], nm)
        /\ Bound(u, nm)
        /\ FitsValue(Control(u, nm), GetAttr(objs[views[u].Class], nm),
                     FieldTags(views[u].Class, nm))

\* C16: write-backs preserve the control kind: when every bound field of a
\* form holds a value its control fits (as after Config), this is still so
\* after a signal from one of the form's own controls and after an Update:
\* int stays int, float stays float, bool stays bool, an enum field stays a
\* member of the same type, a text field stays text.
C16_WriteBackKeepsKind ==
    [][ \A u \in 1..Len(views) :
          ( /\ KindFits(u)
            /\ \/ last'.op = "Update"
               \/ last'.op \in SignalOps /\ views[u].cont = last'.ref[1] )
          => KindFits(u)' ]_vars

====
